---- MODULE Spec2Model ----
(***************************************************************************)
(* Model of webviz_config/_deployment/azure_cli.py: the provisioning       *)
(* operations run against the external Azure control plane, the Graph API  *)
(* and the blob store.  The external services are the variables accounts,  *)
(* roleAssignments, containers, blobs, apps, sps, secrets, redirectUris;   *)
(* the frame of each running call (its locals and its position) is loc[p]. *)
(* Every request to an external service is one step; its response is       *)
(* chosen by the environment among the responses the code distinguishes.   *)
(*                                                                         *)
(* Names the module uses without binding them (_azure_cli, AzureHttpError, *)
(* HttpResponseError, CloudError, and subscription / resource_group in     *)
(* storage_container_upload_folder) are read as what they denote: the CLI  *)
(* wrapper, the SDK's exception classes and the deployment's settings.     *)
(*                                                                         *)
(* Spec runs one operation with one caller, ConcSpec runs                  *)
(* create_app_registration or add_reply_url with two callers at once, and  *)
(* PlotSpec is the layout of the table-plotting plugin.                    *)
(***************************************************************************)
EXTENDS Naturals, Sequences, FiniteSets, Bags, TLC

(* ------------------------------ bounds -------------------------------- *)

\* Longest relative path (in components) of an entry under the source folder.
MaxDepth == 2

\* Most entries (files and directories) under the source folder.
MaxEntries == 3

\* Cap on the iterations of the two `while True` retry loops.
MaxAttempts == 3

\* How many times the same operation is run in a row with the same arguments.
MaxRuns == 2

(* ------------------------- program constants -------------------------- *)

\* for _ in range(5)
UploadRetries == 5

Roles == <<"Storage Blob Data Contributor", "Storage Account Key Operator Service Role">>

\* the script runs one operation at a time
OneCaller == {1}

\* two scripts run against the same tenant at the same time
TwoCallers == {1, 2}

Names == {"a", "b"}

\* source_folder, and one file that lies beside it.
SourceFolder == <<"site">>

OutsideFile == <<"notes">>

\* The classes of exception an upload can end with.
UploadErrors == {"AzureHttpError", "OtherError"}

(* ---------------------------- file system ----------------------------- *)

RelPaths == UNION {[1..n -> Names] : n \in 1..MaxDepth}

Parent(path) == SubSeq(path, 1, Len(path) - 1)

IsPrefixClosed(S) == \A q \in S : Len(q) > 1 => Parent(q) \in S

HasChild(S, q) == \E r \in S : Len(r) = Len(q) + 1 /\ Parent(r) = q

\* The directory trees under the source folder: every entry is a regular file
\* or a directory, and only directories have entries below them.
Trees ==
    UNION {
        { t \in [S -> {"file", "dir"}] : \A q \in S : HasChild(S, q) => t[q] = "dir" }
        : S \in { S \in SUBSET RelPaths : Cardinality(S) <= MaxEntries /\ IsPrefixClosed(S) } }

\* The file system holding tree t under the source folder.
FileSystem(t) ==
    [ q \in {SourceFolder} \cup {OutsideFile} \cup { SourceFolder \o r : r \in DOMAIN t } |->
        IF q = SourceFolder THEN "dir"
        ELSE IF q = OutsideFile THEN "file"
        ELSE t[SubSeq(q, Len(SourceFolder) + 1, Len(q))] ]

\* source_folder.rglob("*"): every entry below the folder, at any depth.
rglob(files, folder) ==
    { q \in DOMAIN files : Len(q) > Len(folder) /\ SubSeq(q, 1, Len(folder)) = folder }

is_file(files, q) == files[q] = "file"

\* paths_to_upload = [path for path in source_folder.rglob("*") if path.is_file()]
paths_to_upload(files, folder) == { q \in rglob(files, folder) : is_file(files, q) }

\* path.relative_to(source_folder)
relative_to(path, folder) == SubSeq(path, Len(folder) + 1, Len(path))

\* PurePath.as_posix(): the components joined by "/".
RECURSIVE as_posix(_)
as_posix(parts) ==
    IF Len(parts) = 0 THEN "."
    ELSE IF Len(parts) = 1 THEN parts[1]
    ELSE parts[1] \o "/" \o as_posix(Tail(parts))

blob_name_basename(path, folder) == path[Len(path)]

\* name=path.relative_to(source_folder).as_posix()
blob_name(path, folder) == as_posix(relative_to(path, folder))

(* ------------------------------- state -------------------------------- *)

VARIABLES
    fs,               \* the local file system: path -> "file" | "dir"
    accounts,         \* names of the storage accounts that exist
    roleAssignments,  \* <<role, assignee, scope>> of the role assignments that exist
    containers,       \* names of the blob containers that exist
    blobs,            \* names of the blobs in the container
    apps,             \* the app registrations, in the order the Graph API lists them
    sps,              \* the service principals, in the order the Graph API lists them
    secrets,          \* object id -> number of password credentials of the app
    redirectUris,     \* object id -> web.redirectUris of the app
    loc,              \* p -> frame of the call process p is running
    plotter           \* the table-plotting plugin's layout, NoPlugin when none is built

ext == <<accounts, roleAssignments, containers, blobs, apps, sps, secrets, redirectUris>>

vars == <<fs, ext, loc, plotter>>

Procs == DOMAIN loc

Ops ==
    {"create_storage_account", "create_storage_container", "storage_container_upload_folder",
     "azure_app_registration_setup", "create_app_registration", "create_service_principal",
     "add_reply_url"}

Kinds == {"account", "container", "app", "sp"}

AccountName == "webvizsa"

ContainerName == "webviz"

UserId == "user-oid"

ResourceGroupId == "/subscriptions/sub/resourceGroups/rg"

TenantId == "tenant"

Urls == {"https://a/oauth2/callback", "https://b/oauth2/callback"}

CookieTokens == {"tok1", "tok2"}

AppIds == {1, 2}

\* The Graph object id ("id") of the application with application id appId.
ObjectIdOfApp(appId) == appId + 100

ObjectIds == { ObjectIdOfApp(a) : a \in AppIds }

NoResult ==
    [app_registration_id |-> 0, object_id |-> 0, proxy_client_secret |-> 0,
     proxy_cookie_secret |-> "", proxy_redirect_url |-> "", tenant_id |-> ""]

StartPc(o) ==
    CASE o = "create_storage_account" -> "csa_create"
      [] o = "create_storage_container" -> "csc_create"
      [] o = "storage_container_upload_folder" -> "up_loop"
      [] o = "azure_app_registration_setup" -> "aars_loop"
      [] o = "create_app_registration" -> "car_lookup"
      [] o = "create_service_principal" -> "csp_lookup"
      [] o = "add_reply_url" -> "aru_get"

SpsOfApp(appId) == SelectSeq(sps, LAMBDA s : s.appId = appId)

\* Which of the resources the call names exist already.
Existing(appId) ==
    [k \in Kinds |->
        CASE k = "account" -> AccountName \in accounts
          [] k = "container" -> ContainerName \in containers
          [] k = "app" -> apps # <<>>
          [] k = "sp" -> appId # 0 /\ SpsOfApp(appId) # <<>>]

\* The frame of a call of operation o that is about to start: its arguments
\* (app_registration_id, reply_url), its locals, and what the run has done.
Frame(o, appId, url, n, firstRun) ==
    [top |-> o, pc |-> StartPc(o), run |-> n, first |-> firstRun,
     outcome |-> "running", exc |-> "none", cause |-> "none", result |-> NoResult,
     attempts |-> 0, waits |-> 0, ends |-> <<>>, refused |-> 0,
     azure_pim_already_open |-> FALSE, pim_opens |-> 0,
     existed |-> Existing(IF appId # 0 THEN appId ELSE IF apps # <<>> THEN apps[1].appId ELSE 0),
     creates |-> [k \in Kinds |-> 0],
     assigned |-> <<>>,
     tasks |-> <<>>, uploaded |-> EmptyBag,
     arg_app_id |-> appId, reply_url |-> url,
     app_registration_id |-> appId, lookup_error |-> FALSE,
     app_object_id |-> 0, object_id |-> 0, tenant_id |-> "",
     proxy_client_secret |-> 0, secrets_made |-> 0,
     web |-> <<>>, patched |-> "none"]

Returned(f, res) == [f EXCEPT !.pc = "done", !.outcome = "returned", !.result = res]

Raised(f, e) == [f EXCEPT !.pc = "done", !.outcome = "raised", !.exc = e]

Set(p, f) == loc' = [loc EXCEPT ![p] = f]

\* The frame after a request was answered with resp: the run's count of
\* refused requests grows unless resp is the successful answer.
Answered(f, resp, success) == IF resp = success THEN f ELSE [f EXCEPT !.refused = @ + 1]

\* The frame after one attempt of a retry loop ended with `how` ("ok", or the
\* class of the exception).
AttemptEnded(f, how) == [f EXCEPT !.ends = Append(@, how)]

(* ------------------------------- Init --------------------------------- *)

\* The duplicate-free lists of redirect URIs (the Graph API stores no URI twice).
UriLists ==
    { s \in UNION {[1..n -> Urls] : n \in 0..Cardinality(Urls)} :
        \A i, j \in DOMAIN s : i # j => s[i] # s[j] }

App(appId) == [appId |-> appId, id |-> ObjectIdOfApp(appId)]

InitExt(o) ==
    /\ fs \in IF o = "storage_container_upload_folder"
              THEN { FileSystem(t) : t \in Trees } ELSE { FileSystem(<<>>) }
    /\ accounts \in IF o = "create_storage_account"
                    THEN {{}, {AccountName}} ELSE {{AccountName}}
    /\ roleAssignments = {}
    /\ containers \in IF o = "create_storage_container"
                      THEN {{}, {ContainerName}} ELSE {{ContainerName}}
    /\ blobs = {}
    /\ apps \in CASE o \in {"azure_app_registration_setup", "create_app_registration"} ->
                        {<<>>, <<App(1)>>}
                  [] o \in {"create_service_principal", "add_reply_url"} -> {<<App(1)>>}
                  [] OTHER -> {<<>>}
    /\ sps \in IF o \in {"azure_app_registration_setup", "create_service_principal"} /\ apps # <<>>
               THEN {<<>>} \cup { <<[appId |-> 1, id |-> 201, appRoleAssignmentRequired |-> r]>> :
                                    r \in BOOLEAN }
               ELSE {<<>>}
    /\ secrets = [i \in ObjectIds |-> 0]
    /\ redirectUris \in IF o \in {"azure_app_registration_setup", "add_reply_url"} /\ apps # <<>>
                        THEN { [i \in ObjectIds |-> IF i = ObjectIdOfApp(1) THEN s ELSE <<>>] :
                                 s \in UriLists }
                        ELSE { [i \in ObjectIds |-> <<>>] }

(* ----------------------- the table-plotting plugin --------------------- *)
(* The plugin's code is not part of the sources at hand: its layout is      *)
(* modelled from the interface description ("a layout whose selector        *)
(* visibility is driven by which plot-parameters the currently selected     *)
(* plot type declares as relevant") and from test_table_plotter.py, which   *)
(* reads plugin.plots, plugin.plot_args, the plottype dropdown and the      *)
(* div-<plot_option> elements.                                              *)

PlotTypes == {"scatter", "histogram", "box"}

PlotArgs == {"x", "y", "color"}

\* no plugin instance exists while the deployment script runs
NoPlugin == [plots |-> <<>>, plottype |-> "", div |-> <<>>]

div_style_shown(plots, plot_type, plot_option) == "grid"

\* the style of div-<plot_option> while plot_type is selected
div_style(plots, plot_type, plot_option) ==
    IF plot_option \in plots[plot_type] THEN "grid" ELSE "none"

\* the selectors of all plot options, for one selected plot type
plot_option_layout(plots, plot_type) ==
    [plot_option \in PlotArgs |-> div_style(plots, plot_type, plot_option)]

\* the layout of a new plugin: the plottype dropdown starts at "scatter"
TablePlotter(plots) ==
    [plots |-> plots, plottype |-> "scatter", div |-> plot_option_layout(plots, "scatter")]

PlotInit ==
    /\ \E plots \in [PlotTypes -> SUBSET PlotArgs] : plotter = TablePlotter(plots)
    /\ fs = FileSystem(<<>>)
    /\ accounts = {} /\ roleAssignments = {} /\ containers = {} /\ blobs = {}
    /\ apps = <<>> /\ sps = <<>>
    /\ secrets = [i \in ObjectIds |-> 0]
    /\ redirectUris = [i \in ObjectIds |-> <<>>]
    /\ loc = <<>>

\* the user picks a plot type in the dropdown; the callback restyles the selectors
SelectPlotType(plot_type) ==
    /\ plotter # NoPlugin
    /\ plotter' = [plotter EXCEPT !.plottype = plot_type,
                                  !.div = plot_option_layout(plotter.plots, plot_type)]
    /\ UNCHANGED <<fs, ext, loc>>

PlotNext == \E plot_type \in PlotTypes : SelectPlotType(plot_type)

PlotSpec == PlotInit /\ [][PlotNext]_vars

Init ==
    \E o \in Ops :
        /\ plotter = NoPlugin
        /\ InitExt(o)
        /\ \E url \in IF o \in {"azure_app_registration_setup", "add_reply_url"}
                      THEN Urls ELSE {""} :
              loc = [p \in OneCaller |->
                       Frame(o, IF o \in {"create_service_principal", "add_reply_url"} THEN 1 ELSE 0,
                             url, 1, <<>>)]

(* ------------------- storage_container_upload_folder ------------------ *)

upload_loop_continues_once_more(attempts) == attempts <= UploadRetries

\* for _ in range(5)
upload_loop_continues(attempts) == attempts < UploadRetries

\* except AzureHttpError: pass
upload_retries_on(e) == e = "AzureHttpError"

\* for task in as_completed(tasks): await task -- runs to its end
some_task_done(tasks) == \E q \in DOMAIN tasks : tasks[q] = "done"

all_tasks_done(tasks) == \A q \in DOMAIN tasks : tasks[q] = "done"

\* _upload_batch begins: the files are listed, the container client is made
\* and one upload task per file is created.  (The branch for Python 3.6
\* uploads the files one after the other and stops at the first failure:
\* those are the behaviours below in which UploadBatchRaise follows the first
\* failed upload at once.)
UploadBatchStart(p) ==
    LET f == loc[p] IN
    /\ f.pc = "up_loop" /\ upload_loop_continues(f.attempts)
    /\ Set(p, [f EXCEPT !.pc = "up_await", !.attempts = @ + 1, !.exc = "none",
                        !.tasks = [q \in paths_to_upload(fs, SourceFolder) |-> "pending"],
                        !.uploaded = EmptyBag])
    /\ UNCHANGED <<plotter, fs, ext>>

\* _connection_string raises before any task exists (the access key cannot
\* be listed yet).
UploadConnectFail(p, e) ==
    LET f == loc[p] IN
    /\ f.pc = "up_loop" /\ upload_loop_continues(f.attempts)
    /\ Set(p, [AttemptEnded(Answered(f, e, "ok"), e)
                  EXCEPT !.pc = "up_finally", !.attempts = @ + 1, !.exc = e,
                         !.tasks = <<>>, !.uploaded = EmptyBag])
    /\ UNCHANGED <<plotter, fs, ext>>

\* One _upload_file task completes: upload_blob(name=..., overwrite=True).
UploadFileDone(p, q) ==
    LET f == loc[p] IN
    /\ f.pc = "up_await" /\ q \in DOMAIN f.tasks /\ f.tasks[q] = "pending"
    /\ blobs' = blobs \cup {blob_name(q, SourceFolder)}
    /\ Set(p, [f EXCEPT !.tasks[q] = "done",
                        !.uploaded = @ (+) SetToBag({blob_name(q, SourceFolder)})])
    /\ UNCHANGED <<plotter, fs, accounts, roleAssignments, containers, apps, sps, secrets, redirectUris>>

\* One _upload_file task ends with an exception; the first one to do so is
\* the one `await task` raises.
UploadFileFail(p, q, e) ==
    LET f == loc[p] IN
    /\ f.pc = "up_await" /\ q \in DOMAIN f.tasks /\ f.tasks[q] = "pending"
    /\ Set(p, [Answered(f, e, "ok") EXCEPT !.tasks[q] = "failed",
                                            !.exc = IF @ = "none" THEN e ELSE @])
    /\ UNCHANGED <<plotter, fs, ext>>

\* Every task was awaited without an exception: _upload_batch returns and
\* the `return` of line 310 is pending while the finally clause runs.
UploadBatchReturn(p) ==
    LET f == loc[p] IN
    /\ f.pc = "up_await" /\ f.exc = "none" /\ all_tasks_done(f.tasks)
    /\ Set(p, [AttemptEnded(f, "ok") EXCEPT !.pc = "up_finally"])
    /\ UNCHANGED <<plotter, fs, ext>>

\* `await task` raises: asyncio.run cancels the tasks still pending and
\* the exception leaves _upload_batch.
UploadBatchRaise(p) ==
    LET f == loc[p] IN
    /\ f.pc = "up_await" /\ f.exc # "none"
    /\ Set(p, [AttemptEnded(f, f.exc) EXCEPT
                  !.pc = "up_finally",
                  !.tasks = [q \in DOMAIN @ |-> IF @[q] = "pending" THEN "cancelled" ELSE @[q]]])
    /\ UNCHANGED <<plotter, fs, ext>>

\* finally: print(...); time.sleep(60) -- then the pending return, the next
\* iteration (the exception was caught) or the propagating exception.
upload_after_finally_loops(g) ==
    IF g.exc = "none" \/ upload_retries_on(g.exc) THEN [g EXCEPT !.pc = "up_loop"]
    ELSE Raised(g, g.exc)

upload_after_finally(g) ==
    IF g.exc = "none" THEN Returned(g, NoResult)
    ELSE IF upload_retries_on(g.exc) THEN [g EXCEPT !.pc = "up_loop"]
    ELSE Raised(g, g.exc)

UploadFinally(p) ==
    LET f == loc[p] IN
    /\ f.pc = "up_finally"
    /\ Set(p, upload_after_finally([f EXCEPT !.waits = @ + 1]))
    /\ UNCHANGED <<plotter, fs, ext>>

\* The loop ran out: raise RuntimeError("Not able to upload folder ...").
UploadExhausted(p) ==
    LET f == loc[p] IN
    /\ f.pc = "up_loop" /\ ~upload_loop_continues(f.attempts)
    /\ Set(p, Raised(f, "RuntimeError"))
    /\ UNCHANGED <<plotter, fs, ext>>

storage_container_upload_folder(p) ==
    \/ UploadBatchStart(p)
    \/ \E e \in UploadErrors : UploadConnectFail(p, e)
    \/ \E q \in DOMAIN fs : UploadFileDone(p, q)
    \/ \E q \in DOMAIN fs, e \in UploadErrors : UploadFileFail(p, q, e)
    \/ UploadBatchReturn(p)
    \/ UploadBatchRaise(p)
    \/ UploadFinally(p)
    \/ UploadExhausted(p)

(* ------------------------ create_storage_account --------------------- *)

\* What `az storage account create` can answer: success, an HttpResponseError
\* or CloudError whose text holds "AuthorizationFailed", one whose text does
\* not, or an exception of another class.
CreateAccountResponses == {"ok", "AuthorizationFailed", "HttpResponseError", "OtherError"}

\* except (HttpResponseError, CloudError) as exc
csa_catches(e) == e \in {"AuthorizationFailed", "HttpResponseError"}

\* if "AuthorizationFailed" in str(exc)
csa_retries_on_any(e) == TRUE

csa_retries_on_never(e) == FALSE

csa_retries_on(e) == e = "AuthorizationFailed"

csa_open_pim_always(f) == [f EXCEPT !.pim_opens = @ + 1]

\* if not azure_pim_already_open: webbrowser.open(...); azure_pim_already_open = True
csa_open_pim(f) ==
    IF ~f.azure_pim_already_open
    THEN [f EXCEPT !.pim_opens = @ + 1, !.azure_pim_already_open = TRUE]
    ELSE f

\* f"{resource_group_id}/providers/Microsoft.Storage/storageAccounts/{name}"
role_scope_of_group(resource_group_id, name) == resource_group_id

role_scope(resource_group_id, name) ==
    resource_group_id \o "/providers/Microsoft.Storage/storageAccounts/" \o name

\* One iteration of the try: the create request and what its answer leads to.
CsaCreate(p, resp) ==
    LET f == loc[p]
        g == [AttemptEnded(Answered(f, resp, "ok"), resp)
                EXCEPT !.attempts = @ + 1, !.creates["account"] = @ + 1,
                       !.exc = IF resp = "ok" THEN "none" ELSE resp] IN
    /\ f.pc = "csa_create"
    /\ resp = "AuthorizationFailed" => f.attempts + 1 < MaxAttempts
    /\ accounts' = IF resp = "ok" THEN accounts \cup {AccountName} ELSE accounts
    /\ Set(p, IF resp = "ok" THEN [g EXCEPT !.pc = "csa_ids"]
              ELSE IF ~csa_catches(resp) THEN Raised(g, resp)
              ELSE IF csa_retries_on(resp) THEN [g EXCEPT !.pc = "csa_except"]
              ELSE [Raised(g, "RuntimeError") EXCEPT !.cause = resp])
    /\ UNCHANGED <<plotter, fs, roleAssignments, containers, blobs, apps, sps, secrets, redirectUris>>

\* The AuthorizationFailed branch: the PIM page (once), the message, sleep(60).
CsaExcept(p) ==
    LET f == loc[p] IN
    /\ f.pc = "csa_except"
    /\ Set(p, [csa_open_pim(f) EXCEPT !.pc = "csa_create", !.waits = @ + 1])
    /\ UNCHANGED <<plotter, fs, ext>>

\* user_id and resource_group_id are read with two az calls.
CsaIds(p, resp) ==
    LET f == loc[p] IN
    /\ f.pc = "csa_ids"
    /\ Set(p, IF resp = "ok" THEN [f EXCEPT !.pc = "csa_role"]
              ELSE Raised(Answered(f, resp, "ok"), "OtherError"))
    /\ UNCHANGED <<plotter, fs, ext>>

\* for role in [...]: az role assignment create --role --assignee --scope
CsaRole(p, resp) ==
    LET f == loc[p]
        a == <<Roles[Len(f.assigned) + 1], UserId, role_scope(ResourceGroupId, AccountName)>>
        g == [f EXCEPT !.assigned = Append(@, a)] IN
    /\ f.pc = "csa_role"
    /\ roleAssignments' = IF resp = "ok" THEN roleAssignments \cup {a} ELSE roleAssignments
    /\ Set(p, IF resp # "ok" THEN Raised(Answered(f, resp, "ok"), "OtherError")
              ELSE IF Len(g.assigned) = Len(Roles) THEN Returned(g, NoResult)
              ELSE g)
    /\ UNCHANGED <<plotter, fs, accounts, containers, blobs, apps, sps, secrets, redirectUris>>

create_storage_account(p) ==
    \/ \E resp \in CreateAccountResponses : CsaCreate(p, resp)
    \/ CsaExcept(p)
    \/ \E resp \in {"ok", "error"} : CsaIds(p, resp)
    \/ \E resp \in {"ok", "error"} : CsaRole(p, resp)

(* ----------------------- create_storage_container --------------------- *)

\* ...get_container_client(container).create_container(): the service makes
\* the container, or answers with an error (always so when it exists).
CscCreate(p, resp) ==
    LET f == loc[p]
        g == [Answered(f, resp, "ok") EXCEPT !.creates["container"] = @ + 1] IN
    /\ f.pc = "csc_create"
    /\ resp = "ok" => ContainerName \notin containers
    /\ containers' = IF resp = "ok" THEN containers \cup {ContainerName} ELSE containers
    /\ Set(p, IF resp = "ok" THEN Returned(g, NoResult) ELSE Raised(g, "HttpResponseError"))
    /\ UNCHANGED <<plotter, fs, accounts, roleAssignments, blobs, apps, sps, secrets, redirectUris>>

create_storage_container(p) == \E resp \in {"ok", "error"} : CscCreate(p, resp)

(* ------------------------------ Graph API ----------------------------- *)

InSetup(f) == f.top = "azure_app_registration_setup"

\* except PermissionError
aars_catches(e) == e = "PermissionError"

\* An exception leaves a Graph call: inside the try of
\* azure_app_registration_setup a PermissionError is handled, anything else
\* (and everything outside the try) reaches the caller.
Throw(f, e) ==
    IF InSetup(f) /\ f.pc \in {"car_lookup", "car_post", "csp_lookup", "csp_post"}
                  /\ aars_catches(e)
    THEN [AttemptEnded(f, e) EXCEPT !.pc = "aars_except", !.exc = e]
    ELSE IF InSetup(f) /\ f.pc \in {"car_lookup", "car_post", "csp_lookup", "csp_post"}
    THEN Raised(AttemptEnded(f, e), e)
    ELSE Raised(f, e)

\* data["value"][0]["id"] of applications?$filter=appID eq '...'
object_id_from_app_id(app_registration_id) ==
    SelectSeq(apps, LAMBDA a : a.appId = app_registration_id)[1].id

\* while True: try: -- one more iteration begins
AarsLoop(p) ==
    LET f == loc[p] IN
    /\ f.pc = "aars_loop"
    /\ Set(p, [f EXCEPT !.pc = "car_lookup", !.attempts = @ + 1, !.exc = "none"])
    /\ UNCHANGED <<plotter, fs, ext>>

\* if not azure_pim_already_open: webbrowser.open(...); azure_pim_already_open = True
aars_open_pim(f) ==
    IF ~f.azure_pim_already_open
    THEN [f EXCEPT !.pim_opens = @ + 1, !.azure_pim_already_open = TRUE]
    ELSE f

\* except PermissionError: the PIM page (once), the message, sleep(30).
AarsExcept(p) ==
    LET f == loc[p] IN
    /\ f.pc = "aars_except"
    /\ Set(p, [aars_open_pim(f) EXCEPT !.pc = "aars_loop", !.waits = @ + 1])
    /\ UNCHANGED <<plotter, fs, ext>>

\* create_app_registration returns app_id to its caller.
CarReturn(f, app_id) ==
    IF InSetup(f) THEN [f EXCEPT !.pc = "csp_lookup", !.app_registration_id = app_id]
    ELSE Returned(f, [NoResult EXCEPT !.app_registration_id = app_id])

\* existing_app_registration(display_name) and the test of its result.
CarLookup(p, resp) ==
    LET f == Answered(loc[p], resp, "ok") IN
    /\ f.pc = "car_lookup"
    /\ Set(p, IF resp # "ok" THEN Throw(f, "KeyError")
              ELSE IF apps # <<>> THEN CarReturn(f, apps[1].appId)
              ELSE [f EXCEPT !.pc = "car_post"])
    /\ UNCHANGED <<plotter, fs, ext>>

\* requests.post(.../applications): a new application, the error
\* Authorization_RequestDenied, or another error response.
CarPost(p, resp) ==
    LET f == loc[p]
        g == [Answered(f, resp, "created") EXCEPT !.creates["app"] = @ + 1]
        new == Len(apps) + 1 IN
    /\ f.pc = "car_post"
    /\ resp = "created" => new \in AppIds
    /\ resp = "Authorization_RequestDenied" /\ InSetup(f) => f.attempts < MaxAttempts
    /\ apps' = IF resp = "created" THEN Append(apps, App(new)) ELSE apps
    /\ Set(p, CASE resp = "created" -> CarReturn(g, new)
                [] resp = "Authorization_RequestDenied" -> Throw(g, "PermissionError")
                [] OTHER -> Throw(g, "KeyError"))
    /\ UNCHANGED <<plotter, fs, accounts, roleAssignments, containers, blobs, sps, secrets, redirectUris>>

\* create_service_principal returns (object_id, directory_tenant_id).
CspReturn(f, data_object) ==
    IF InSetup(f)
    THEN [AttemptEnded(f, "ok") EXCEPT !.pc = "cs_post", !.object_id = data_object.id,
                                       !.tenant_id = TenantId]
    ELSE Returned(f, [NoResult EXCEPT !.object_id = data_object.id, !.tenant_id = TenantId])

\* if "error" not in data and data["value"]
csp_found(resp, found) == resp = "ok" /\ found # <<>>

csp_requires_assignment_unchecked(data_object) == TRUE

\* if not data_object["appRoleAssignmentRequired"]: raise RuntimeError(...)
csp_requires_assignment(data_object) == data_object.appRoleAssignmentRequired

\* The GET of servicePrincipals?$filter=appID eq '...' and the branch on it.
CspLookup(p, resp) ==
    LET f == Answered(loc[p], resp, "ok")
        found == SpsOfApp(f.app_registration_id) IN
    /\ f.pc = "csp_lookup"
    /\ Set(p, IF csp_found(resp, found)
              THEN IF ~csp_requires_assignment(found[1])
                   THEN Throw(f, "RuntimeError")
                   ELSE CspReturn(f, found[1])
              ELSE [f EXCEPT !.pc = "csp_post", !.lookup_error = (resp # "ok")])
    /\ UNCHANGED <<plotter, fs, ext>>

\* requests.post(.../servicePrincipals) with appRoleAssignmentRequired True;
\* the Graph API keeps one service principal per application.  Then the test
\* `if "error" in data` on the response of the lookup.
CspPost(p, resp) ==
    LET f == loc[p]
        g == [Answered(f, resp, "created") EXCEPT !.creates["sp"] = @ + 1]
        new == [appId |-> f.app_registration_id, id |-> 200 + Len(sps) + 1,
                appRoleAssignmentRequired |-> TRUE] IN
    /\ f.pc = "csp_post"
    /\ resp = "created" => SpsOfApp(f.app_registration_id) = <<>>
    /\ sps' = IF resp = "created" THEN Append(sps, new) ELSE sps
    /\ Set(p, IF f.lookup_error THEN Throw(g, "RuntimeError")
              ELSE IF resp # "created" THEN Throw(g, "KeyError")
              ELSE CspReturn(g, new))
    /\ UNCHANGED <<plotter, fs, accounts, roleAssignments, containers, blobs, apps, secrets, redirectUris>>

\* create_secret: the object id is looked up, then POST .../addPassword adds
\* a password credential and answers with its secretText.
keep_secret_dropped(f, secret_text) == [f EXCEPT !.pc = "aru_get", !.secrets_made = @ + 1]

\* proxy_client_secret = create_secret(app_registration_id, "cli secret")
keep_secret(f, secret_text) ==
    [f EXCEPT !.pc = "aru_get", !.secrets_made = @ + 1, !.proxy_client_secret = secret_text]

CsPost(p, resp) ==
    LET f == Answered(loc[p], resp, "ok")
        oid == object_id_from_app_id(f.app_registration_id) IN
    /\ f.pc = "cs_post"
    /\ secrets' = IF resp = "ok" THEN [secrets EXCEPT ![oid] = @ + 1] ELSE secrets
    /\ Set(p, IF resp # "ok" THEN Throw(f, "KeyError")
              ELSE keep_secret(f, 10 * oid + secrets'[oid]))
    /\ UNCHANGED <<plotter, fs, accounts, roleAssignments, containers, blobs, apps, sps, redirectUris>>

append_reply_url_always(uris, reply_url) == Append(uris, reply_url)

\* if reply_url not in web["redirectUris"]: web["redirectUris"].append(reply_url)
append_reply_url(uris, reply_url) ==
    IF \E i \in DOMAIN uris : uris[i] = reply_url THEN uris ELSE Append(uris, reply_url)

\* add_reply_url: the object id is looked up, the application is read and
\* the URL is added to the local copy of web.redirectUris.
AruGet(p, resp) ==
    LET f == Answered(loc[p], resp, "ok")
        oid == object_id_from_app_id(f.app_registration_id) IN
    /\ f.pc = "aru_get"
    /\ Set(p, IF resp # "ok" THEN Throw(f, "KeyError")
              ELSE [f EXCEPT !.pc = "aru_patch", !.app_object_id = oid,
                             !.web = append_reply_url(redirectUris[oid], f.reply_url)])
    /\ UNCHANGED <<plotter, fs, ext>>

\* requests.patch(..., json={"web": web}): the stored list is replaced when
\* the Graph API accepts the request; the response is not looked at.
AruPatch(p, resp) ==
    LET f == loc[p]
        g == [Answered(f, resp, "ok") EXCEPT !.patched = resp] IN
    /\ f.pc = "aru_patch"
    /\ redirectUris' = IF resp = "ok" THEN [redirectUris EXCEPT ![f.app_object_id] = f.web]
                       ELSE redirectUris
    /\ Set(p, IF InSetup(f) THEN [g EXCEPT !.pc = "aars_return"] ELSE Returned(g, NoResult))
    /\ UNCHANGED <<plotter, fs, accounts, roleAssignments, containers, blobs, apps, sps, secrets>>

\* return {...}: the record, with a fresh secrets.token_urlsafe(nbytes=16).
AarsReturn(p, token) ==
    LET f == loc[p] IN
    /\ f.pc = "aars_return"
    /\ Set(p, Returned(f, [app_registration_id |-> f.app_registration_id,
                           object_id |-> f.object_id,
                           proxy_client_secret |-> f.proxy_client_secret,
                           proxy_cookie_secret |-> token,
                           proxy_redirect_url |-> f.reply_url,
                           tenant_id |-> f.tenant_id]))
    /\ UNCHANGED <<plotter, fs, ext>>

GraphCalls(p) ==
    \/ \E resp \in {"ok", "error"} : CarLookup(p, resp)
    \/ \E resp \in {"created", "Authorization_RequestDenied", "error"} : CarPost(p, resp)
    \/ \E resp \in {"ok", "error"} : CspLookup(p, resp)
    \/ \E resp \in {"created", "error"} : CspPost(p, resp)
    \/ \E resp \in {"ok", "error"} : CsPost(p, resp)
    \/ \E resp \in {"ok", "error"} : AruGet(p, resp)
    \/ \E resp \in {"ok", "rejected"} : AruPatch(p, resp)

azure_app_registration_setup(p) ==
    \/ AarsLoop(p)
    \/ AarsExcept(p)
    \/ \E token \in CookieTokens : AarsReturn(p, token)

(* ------------------------------- runs --------------------------------- *)

\* The same operation is called again with the same arguments.
Rerun(p) ==
    LET f == loc[p] IN
    /\ f.pc = "done" /\ f.run < MaxRuns
    /\ Set(p, Frame(f.top, f.arg_app_id, f.reply_url, f.run + 1,
                    IF f.run = 1
                    THEN <<[outcome |-> f.outcome, served |-> f.refused = 0,
                            result |-> f.result, ext |-> ext]>>
                    ELSE f.first))
    /\ UNCHANGED <<plotter, fs, ext>>

Next ==
    \E p \in OneCaller :
        \/ create_storage_account(p)
        \/ create_storage_container(p)
        \/ storage_container_upload_folder(p)
        \/ azure_app_registration_setup(p)
        \/ GraphCalls(p)
        \/ Rerun(p)

Spec == Init /\ [][Next]_vars

(* ------------------------- two callers at once ------------------------- *)
(* The functions are plain module functions without a lock: two scripts     *)
(* (or two threads) that call the same function send their Graph requests   *)
(* in any order. Every request is one atomic step of the Graph API.         *)

ConcOps == {"create_app_registration", "add_reply_url"}

ConcInit ==
    \E o \in ConcOps :
        /\ plotter = NoPlugin
        /\ InitExt(o)
        /\ \E url \in [TwoCallers -> IF o = "add_reply_url" THEN Urls ELSE {""}] :
              loc = [p \in TwoCallers |->
                       Frame(o, IF o = "add_reply_url" THEN 1 ELSE 0, url[p], 1, <<>>)]

ConcNext ==
    \E p \in TwoCallers :
        \/ \E resp \in {"ok", "error"} : CarLookup(p, resp)
        \/ \E resp \in {"created", "Authorization_RequestDenied", "error"} : CarPost(p, resp)
        \/ \E resp \in {"ok", "error"} : AruGet(p, resp)
        \/ \E resp \in {"ok", "rejected"} : AruPatch(p, resp)

ConcSpec == ConcInit /\ [][ConcNext]_vars

(* ------------------------------ properties ---------------------------- *)

UploadFrame(f) == f.top = "storage_container_upload_folder"

\* The attempt the frame counts last has ended, and ended with `how`.
LastAttemptEnded(f, how) ==
    f.attempts > 0 /\ Len(f.ends) = f.attempts /\ f.ends[f.attempts] = how

\* The regular files below the source folder.
SourceFiles == { q \in DOMAIN fs : Len(q) > 1 /\ q[1] = "site" /\ fs[q] = "file" }

\* The path of q below the source folder, written with "/" between components.
RECURSIVE SlashJoined(_)
SlashJoined(parts) ==
    IF Len(parts) = 1 THEN parts[1]
    ELSE SlashJoined(SubSeq(parts, 1, Len(parts) - 1)) \o "/" \o parts[Len(parts)]

Occurrences(list, x) == Cardinality({ i \in DOMAIN list : list[i] = x })

\* C1: when every upload attempt of storage_container_upload_folder fails
\* with the transient error (AzureHttpError), _upload_batch is attempted
\* exactly 5 times, and the RuntimeError is raised only after those 5.
C1_ExactlyFiveAttempts ==
    \A p \in Procs :
        LET f == loc[p]
            allTransient == \A i \in DOMAIN f.ends : f.ends[i] = "AzureHttpError" IN
        UploadFrame(f) =>
            /\ f.attempts <= 5
            /\ (f.outcome = "raised" /\ f.exc = "RuntimeError") =>
                    f.attempts = 5 /\ Len(f.ends) = 5 /\ allTransient
            /\ (f.pc = "done" /\ allTransient) =>
                    f.attempts = 5 /\ f.outcome = "raised" /\ f.exc = "RuntimeError"

C1_Witness ==
    \E p \in Procs :
        /\ UploadFrame(loc[p]) /\ loc[p].pc = "done" /\ loc[p].exc = "RuntimeError"
        /\ loc[p].attempts = 5
        /\ \A i \in 1..5 : loc[p].ends[i] = "AzureHttpError"

\* C2: a create operation issues no create request for a resource that
\* existed when the operation was called.
C2_NoCreateRequestWhenExisting ==
    \A p \in Procs : \A k \in Kinds : loc[p].existed[k] => loc[p].creates[k] = 0

\* C3: in one run the privilege-elevation page is opened at most once,
\* however often the create request or the app registration is retried.
C3_PimOpenedAtMostOnce == \A p \in Procs : loc[p].pim_opens <= 1

C3_Witness ==
    \E p \in Procs :
        /\ loc[p].top = "create_storage_account"
        /\ loc[p].waits >= 2 /\ loc[p].pim_opens = 1 /\ loc[p].pc = "csa_create"

C5_FirstSuccessEndsTheRun ==
    \A p \in Procs :
        LET f == loc[p] IN
        UploadFrame(f) =>
            \A k \in DOMAIN f.ends :
                f.ends[k] = "ok" =>
                    /\ k = Len(f.ends) /\ f.attempts = k /\ k <= 5
                    /\ f.pc \in {"up_finally", "done"}
                    /\ f.pc = "done" => f.outcome = "returned"

C5_Witness ==
    \E p \in Procs :
        /\ UploadFrame(loc[p]) /\ loc[p].outcome = "returned"
        /\ loc[p].attempts = 5 /\ LastAttemptEnded(loc[p], "ok")

\* C6: a finished run of storage_container_upload_folder that made k upload
\* attempts has waited k - 1 times.
C6_WaitsOnlyBetweenAttempts ==
    \A p \in Procs :
        (UploadFrame(loc[p]) /\ loc[p].pc = "done") => loc[p].waits + 1 = loc[p].attempts

\* C7: a second run with the same arguments, after a first run that returned,
\* with every request of both runs served, returns the same identifiers and
\* leaves the external resources as the first run left them.
C7_SecondRunConverges ==
    \A p \in Procs :
        LET f == loc[p] IN
        (/\ f.run >= 2 /\ f.pc = "done" /\ f.refused = 0
         /\ f.first[1].outcome = "returned" /\ f.first[1].served) =>
            /\ f.outcome = "returned"
            /\ f.result.app_registration_id = f.first[1].result.app_registration_id
            /\ f.result.object_id = f.first[1].result.object_id
            /\ f.result.tenant_id = f.first[1].result.tenant_id
            /\ ext = f.first[1].ext

\* C8: no redirect URI is ever stored twice, and once a call of add_reply_url
\* has had its PATCH accepted its URL is stored exactly once, whether it is
\* the first call or a repeated one and whether or not the URL was stored
\* before.
C8_ReplyUrlStoredOnce ==
    /\ \A o \in ObjectIds, u \in Urls : Occurrences(redirectUris[o], u) <= 1
    /\ \A p \in Procs :
          loc[p].patched = "ok" =>
              Occurrences(redirectUris[loc[p].app_object_id], loc[p].reply_url) = 1

C8_Witness ==
    \E p \in Procs :
        /\ loc[p].top = "add_reply_url" /\ loc[p].run >= 2 /\ loc[p].pc = "done"
        /\ loc[p].patched = "ok" /\ loc[p].first[1].outcome = "returned"
        /\ Occurrences(redirectUris[loc[p].app_object_id], loc[p].reply_url) = 1
        /\ Len(redirectUris[loc[p].app_object_id]) = 2

\* C9: every attempt has one upload task per file; an attempt ends well only
\* when every file was uploaded during that attempt, in whatever order, and
\* an attempt in which a task failed does not end well.
C9_AllOrRetryWhole ==
    \A p \in Procs :
        LET f == loc[p] IN
        UploadFrame(f) =>
            /\ f.pc = "up_await" => DOMAIN f.tasks = SourceFiles
            /\ LastAttemptEnded(f, "ok") =>
                  /\ \A q \in SourceFiles : f.tasks[q] = "done"
                  /\ BagCardinality(f.uploaded) = Cardinality(SourceFiles)
            /\ (\E q \in DOMAIN f.tasks : f.tasks[q] = "failed") => ~LastAttemptEnded(f, "ok")

C9_Witness ==
    \E p \in Procs :
        /\ UploadFrame(loc[p]) /\ loc[p].attempts = 2 /\ loc[p].refused = 1
        /\ loc[p].ends = <<"AzureHttpError", "ok">>
        /\ Cardinality(SourceFiles) = 2
        /\ \A q \in SourceFiles : loc[p].tasks[q] = "done"

\* C10: one successful _upload_batch uploads exactly one blob per regular
\* file, named by the file's path relative to the source folder with "/"
\* between the components; directories give no blob.
C10_BlobNamesAreRelativePosixPaths ==
    \A p \in Procs :
        LET f == loc[p]
            expected == { SlashJoined(Tail(q)) : q \in SourceFiles } IN
        (UploadFrame(f) /\ LastAttemptEnded(f, "ok")) =>
            /\ BagToSet(f.uploaded) = expected
            /\ \A n \in expected : CopiesIn(n, f.uploaded) = 1
            /\ Cardinality(expected) = Cardinality(SourceFiles)
            /\ blobs = expected

C10_Witness ==
    \E p \in Procs :
        /\ UploadFrame(loc[p]) /\ LastAttemptEnded(loc[p], "ok")
        /\ blobs = {"b", "a/b"}
        /\ \E q \in DOMAIN fs : Len(q) > 1 /\ fs[q] = "dir"

CsaFrame(f) == f.top = "create_storage_account"

\* C11: an AuthorizationFailed answer never ends create_storage_account: each
\* is followed by one wait and another create request, whatever their
\* number, and the loop is left only after a create request that succeeded
\* or that failed otherwise.
C11_AuthorizationFailureNeverEndsTheRun ==
    \A p \in Procs :
        LET f == loc[p]
            authFails == { i \in DOMAIN f.ends : f.ends[i] = "AuthorizationFailed" } IN
        CsaFrame(f) =>
            /\ (f.ends # <<>> /\ f.ends[Len(f.ends)] = "AuthorizationFailed") =>
                  f.outcome = "running" /\ f.pc \in {"csa_except", "csa_create"}
            /\ (f.pc \in {"csa_ids", "csa_role"} \/ f.outcome = "returned") =>
                  f.ends[Len(f.ends)] = "ok"
            /\ f.pc = "csa_create" =>
                  /\ Cardinality(authFails) = Len(f.ends)
                  /\ f.attempts = Len(f.ends) /\ f.waits = Len(f.ends)
            /\ f.pc = "csa_except" => f.waits + 1 = Cardinality(authFails)

C11_Witness ==
    \E p \in Procs :
        /\ CsaFrame(loc[p]) /\ loc[p].outcome = "returned"
        /\ loc[p].ends = <<"AuthorizationFailed", "AuthorizationFailed", "ok">>
        /\ loc[p].waits = 2

\* C12: create_storage_account assigns roles only after its create request
\* succeeded, and a call that returns has assigned each of the two roles
\* once, to the signed-in user, with the storage account's resource path as
\* scope.
C12_RolesAssignedAfterCreate ==
    \A p \in Procs :
        LET f == loc[p]
            scope == "/subscriptions/sub/resourceGroups/rg/providers/Microsoft.Storage/storageAccounts/webvizsa"
            both == << <<"Storage Blob Data Contributor", "user-oid", scope>>,
                       <<"Storage Account Key Operator Service Role", "user-oid", scope>> >> IN
        CsaFrame(f) =>
            /\ f.assigned # <<>> =>
                  /\ f.ends # <<>> /\ f.ends[Len(f.ends)] = "ok"
                  /\ "webvizsa" \in accounts
            /\ f.outcome = "returned" =>
                  /\ f.assigned = both
                  /\ roleAssignments = { both[1], both[2] }
            /\ f.outcome # "returned" => Len(f.assigned) < 2

C12_Witness ==
    \E p \in Procs :
        /\ CsaFrame(loc[p]) /\ loc[p].outcome = "returned" /\ loc[p].waits = 1
        /\ Len(loc[p].assigned) = 2 /\ Cardinality(roleAssignments) = 2

SetupFrame(f) == f.top = "azure_app_registration_setup"

\* C13: azure_app_registration_setup returns its record only when the app
\* registration exists, its service principal exists, a client secret was
\* made for that app registration and the redirect URL is stored for it.
C13_RecordOnlyOnSuccess ==
    \A p \in Procs :
        LET f == loc[p]
            app == f.result.app_registration_id IN
        (SetupFrame(f) /\ f.outcome = "returned") =>
            /\ \E i \in DOMAIN apps : apps[i].appId = app
            /\ \E i \in DOMAIN sps : sps[i].appId = app /\ sps[i].id = f.result.object_id
            /\ f.secrets_made = 1 /\ secrets[100 + app] >= 1
            /\ Occurrences(redirectUris[100 + app], f.result.proxy_redirect_url) = 1

\* C14: one run of azure_app_registration_setup makes one client secret,
\* after the retry loop and however often the loop was retried, and returns
\* that secret as proxy_client_secret.
C14_OneSecretPerRun ==
    \A p \in Procs :
        LET f == loc[p]
            oid == 100 + f.result.app_registration_id IN
        SetupFrame(f) =>
            /\ f.secrets_made <= 1
            /\ f.pc \in {"aars_loop", "aars_except", "car_lookup", "car_post",
                         "csp_lookup", "csp_post", "cs_post"} => f.secrets_made = 0
            /\ f.outcome = "returned" =>
                  /\ f.secrets_made = 1
                  /\ f.result.proxy_client_secret = 10 * oid + secrets[oid]
                  /\ f.run = 1 => secrets[oid] = 1

C14_Witness ==
    \E p \in Procs :
        /\ SetupFrame(loc[p]) /\ loc[p].outcome = "returned" /\ loc[p].run = 1
        /\ loc[p].waits = 2 /\ loc[p].secrets_made = 1
        /\ loc[p].result.proxy_client_secret = 1011

CspFrame(f) == f.top = "create_service_principal"

\* C16: create_service_principal returns only identifiers of a service
\* principal that requires app role assignment: an existing one that does
\* not require it makes the call raise RuntimeError, an existing one that
\* requires it is returned without a create request (when the lookup is
\* answered), and one the call creates requires it.
C16_ReturnedPrincipalRequiresAssignment ==
    \A p \in Procs :
        LET f == loc[p]
            found == SelectSeq(sps, LAMBDA s : s.appId = f.arg_app_id) IN
        /\ ((CspFrame(f) \/ SetupFrame(f)) /\ f.outcome = "returned") =>
              /\ \E i \in DOMAIN sps :
                    /\ sps[i].id = f.result.object_id
                    /\ sps[i].appId = f.app_registration_id
                    /\ sps[i].appRoleAssignmentRequired
              /\ f.result.tenant_id = "tenant"
        /\ (CspFrame(f) /\ f.pc = "done") =>
              /\ (f.existed["sp"] /\ ~found[1].appRoleAssignmentRequired) =>
                    f.outcome = "raised" /\ f.exc = "RuntimeError"
              /\ (f.existed["sp"] /\ found[1].appRoleAssignmentRequired /\ f.refused = 0) =>
                    /\ f.outcome = "returned" /\ f.result.object_id = found[1].id
                    /\ f.creates["sp"] = 0
              /\ (~f.existed["sp"] /\ f.outcome = "returned") => f.creates["sp"] = 1

C16_Witness ==
    \E p \in Procs :
        /\ CspFrame(loc[p]) /\ loc[p].run = 2 /\ loc[p].outcome = "returned"
        /\ loc[p].creates["sp"] = 0 /\ loc[p].result.object_id = 201
        /\ loc[p].first[1].outcome = "returned"

\* C17: a call of create_service_principal that raises has created no
\* service principal.
C17_ErrorCreatesNoPrincipal ==
    \A p \in Procs :
        LET f == loc[p] IN
        (CspFrame(f) /\ f.outcome = "raised") =>
            (f.existed["sp"] <=> \E i \in DOMAIN sps : sps[i].appId = f.arg_app_id)

\* C15: in the table plotter's layout, the selector of every plot option of
\* plot_args that the selected plot type (at first "scatter") does not
\* declare as relevant is hidden (display: none).
C15_IrrelevantSelectorsHidden ==
    plotter # NoPlugin =>
        \A plot_option \in PlotArgs :
            plot_option \notin plotter.plots[plotter.plottype] =>
                plotter.div[plot_option] = "none"

C15_Witness ==
    /\ plotter # NoPlugin /\ plotter.plottype = "box"
    /\ \E plot_option \in PlotArgs :
          /\ plot_option \in plotter.plots["scatter"]
          /\ plot_option \notin plotter.plots["box"]
          /\ plotter.div[plot_option] = "none"

CarFrame(f) == f.top = "create_app_registration"

\* C18: runs of create_app_registration with the same display name, also
\* when their lookups and create requests interleave, create at most one
\* app registration of that name and all return the same application ID.
C18_OneRegistrationPerName ==
    (\A p \in Procs : CarFrame(loc[p]) /\ loc[p].outcome = "returned") =>
        /\ Len(apps) <= 1
        /\ \A p, q \in Procs :
              loc[p].result.app_registration_id = loc[q].result.app_registration_id

\* C19: add_reply_url never removes a redirect URI: whatever is stored for
\* an app registration stays stored in every step, also when the GET and
\* PATCH of two calls interleave.
C19_NoRedirectUriRemoved ==
    [][\A i \in ObjectIds : \A k \in DOMAIN redirectUris[i] :
          \E j \in DOMAIN redirectUris'[i] : redirectUris'[i][j] = redirectUris[i][k]]_vars

====
